---------------------------- MODULE Spec2Model ----------------------------
(***************************************************************************)
(* Two-player snake game (SnakeGame.cpp): the frame loop of main, the      *)
(* Game, Snake and Food objects and the globals they share.                *)
(*                                                                         *)
(* Time is counted in units of 0.2 s (the tick interval), so the 10 s      *)
(* visible window of the power-up is 50 units and the 15 s / 16 s gap is   *)
(* 75 / 80 units.  All GetTime() calls of one frame return the same value. *)
(* A position or direction Vector2 is a pair <<x, y>> of integers.         *)
(***************************************************************************)
EXTENDS Integers, Sequences, FiniteSets, TLC

(***************************************************************************)
(* Bounds of the exploration.                                              *)
(***************************************************************************)
\* last value of GetTime() that is explored
MaxTime == 150
\* number of frames in which a steering key is down
MaxKeyFrames == 1
\* number of cells the random source may return (a prefix of SampleCells)
MaxSamples == 3

(***************************************************************************)
(* Program constants.                                                      *)
(***************************************************************************)
cellCount == 25
\* eventTriggered(0.2, gameUpdateTime)
gameInterval == 1
\* eventTriggered(10, powerupOnTime)
powerupDuration == 50
\* GetRandomValue(15, 16)
powerupGapLow == 75
powerupGapHigh == 80

Player1Wins == "Player 1 Wins!"
Player2Wins == "Player 2 Wins!"

SteerKeys1 == {"KEY_UP", "KEY_DOWN", "KEY_RIGHT", "KEY_LEFT"}
SteerKeys2 == {"KEY_W", "KEY_S", "KEY_D", "KEY_A"}
SteerKeys == SteerKeys1 \cup SteerKeys2

(***************************************************************************)
(* Inputs: the time that passes between two frames, the keys for which     *)
(* IsKeyPressed is true during a frame, the cells GetRandomValue yields.   *)
(***************************************************************************)
DtSet == {0, 25, 50}

KeySets ==
    { {}, {"KEY_SPACE"},
      {"KEY_UP"}, {"KEY_DOWN"}, {"KEY_RIGHT"}, {"KEY_LEFT"},
      {"KEY_W"}, {"KEY_S"}, {"KEY_D"}, {"KEY_A"},
      {"KEY_UP", "KEY_LEFT"}, {"KEY_W", "KEY_D"}, {"KEY_UP", "KEY_W"} }

SampleCells ==
    << <<7, 9>>, <<12, 9>>, <<8, 9>>, <<24, 24>>, <<17, 9>>, <<0, 0>> >>

RandCells ==
    { SampleCells[i] : i \in { j \in 1..Len(SampleCells) : j <= MaxSamples } }

VARIABLES
    game,            \* the Game object (lines 140-150): snake1, snake2, food,
                     \* powerup, running, score1, score2, showPowerup,
                     \* powerupOnTime, powerupOffTime, powerupTimeGap
    gameUpdateTime,  \* global (line 16): time of the last tick
    gameOver,        \* global (line 17)
    allowMove,       \* global (line 18)
    winnerMessage,   \* global (line 19)
    now,             \* value of GetTime() in the current frame
    pressed,         \* keys with IsKeyPressed true in the current frame
    pc,              \* position in the body of the frame loop (lines 293-357)
    ticks,           \* history: Game::update calls since construction or reset
    keyFrames,       \* history: frames so far in which a steering key was down
    hiddenAt,        \* history: time showPowerup last went from true to false,
                     \* -1 while that has not happened
    lastStep,        \* history: the branch of the frame loop taken last
    genPosition      \* local of Food::GenRandPos (line 82) in the call that
                     \* SpecGen follows; not in use elsewhere

vars == << game, gameUpdateTime, gameOver, allowMove, winnerMessage, now,
           pressed, pc, ticks, keyFrames, hiddenAt, lastStep, genPosition >>

(***************************************************************************)
(* raymath and the helpers of the file.                                    *)
(***************************************************************************)
Vector2Add(a, b) == << a[1] + b[1], a[2] + b[2] >>

Vector2Subtract(a, b) == << a[1] - b[1], a[2] - b[2] >>

elementInDeque(element, deque) ==
    \E i \in 1..Len(deque) : deque[i] = element

eventTriggered(interval, lastUpdateTime, currentTime) ==
    currentTime - lastUpdateTime >= interval

Sentinel == << -1, -1 >>


(***************************************************************************)
(* class Food.  randomCell() yields a cell of the random source; the set   *)
(* GenRandPos is the set of positions its loop can return.                 *)
(***************************************************************************)
randomCell == RandCells

\* variant: the loop tests the second body only
GenRandPos_SecondBodyOnly(snake1_body, snake2_body) ==
    { position \in randomCell : ~elementInDeque(position, snake2_body) }

GenRandPos(snake1_body, snake2_body) ==
    { position \in randomCell :
        ~(elementInDeque(position, snake1_body)
            \/ elementInDeque(position, snake2_body)) }

(***************************************************************************)
(* class Snake: [body, direction, addSegment], head at body[1].            *)
(***************************************************************************)
StartBody(startPos, startDirection) ==
    << startPos,
       Vector2Subtract(startPos, startDirection),
       Vector2Subtract(Vector2Subtract(startPos, startDirection), startDirection) >>

Snake(startPos, startDirection) ==
    [ body |-> StartBody(startPos, startDirection),
      direction |-> startDirection,
      addSegment |-> FALSE ]

\* variant: the flag is not cleared after the segment is added
SnakeUpdate_KeepsFlag(s) ==
    LET pushed == << Vector2Add(s.body[1], s.direction) >> \o s.body
    IN  IF ~s.addSegment
        THEN [s EXCEPT !.body = SubSeq(pushed, 1, Len(pushed) - 1)]
        ELSE [s EXCEPT !.body = pushed]

\* variant: the head cell is overwritten instead of a new one pushed
SnakeUpdate_MovesHeadOnly(s) ==
    [s EXCEPT !.body[1] = Vector2Add(s.body[1], s.direction)]

SnakeUpdate(s) ==
    LET pushed == << Vector2Add(s.body[1], s.direction) >> \o s.body
    IN  IF ~s.addSegment
        THEN [s EXCEPT !.body = SubSeq(pushed, 1, Len(pushed) - 1)]
        ELSE [s EXCEPT !.body = pushed, !.addSegment = FALSE]

\* variant: the direction is not restored
SnakeReset_KeepsDirection(s, startPos, startDirection) ==
    [s EXCEPT !.body = StartBody(startPos, startDirection)]

SnakeReset(s, startPos, startDirection) ==
    [s EXCEPT !.body = StartBody(startPos, startDirection),
              !.direction = startDirection]

(***************************************************************************)
(* class Game.  The methods act on a record g that holds the fields of the *)
(* Game object, the globals gameOver and winnerMessage that they write,    *)
(* and the history value hiddenAt.  A method that draws a random position  *)
(* yields the set of its possible results.                                 *)
(***************************************************************************)
SnakeOf(g, n) == IF n = 1 THEN g.snake1 ELSE g.snake2

WithSnake(g, n, s) ==
    IF n = 1 THEN [g EXCEPT !.snake1 = s] ELSE [g EXCEPT !.snake2 = s]

AddScore(g, n, k) ==
    IF n = 1 THEN [g EXCEPT !.score1 = @ + k] ELSE [g EXCEPT !.score2 = @ + k]

Hide(g, t) ==
    [g EXCEPT !.showPowerup = FALSE,
              !.hiddenAt = IF g.showPowerup THEN t ELSE @]

\* variant: the food is scored and the growth requested, the food stays
checkFoodCollision_NoRelocate(g, n) ==
    IF SnakeOf(g, n).body[1] = g.food.pos
    THEN { AddScore(WithSnake(g, n, [SnakeOf(g, n) EXCEPT !.addSegment = TRUE]),
                    n, 1) }
    ELSE { g }

\* variant: the food is relocated and scored, the growth is not requested
checkFoodCollision_NoGrowth(g, n) ==
    IF SnakeOf(g, n).body[1] = g.food.pos
    THEN { AddScore([g EXCEPT !.food.pos = p], n, 1)
           : p \in GenRandPos(g.snake1.body, g.snake2.body) }
    ELSE { g }

checkFoodCollision(g, n) ==
    IF SnakeOf(g, n).body[1] = g.food.pos
    THEN { AddScore(
             WithSnake([g EXCEPT !.food.pos = p], n,
                       [SnakeOf(g, n) EXCEPT !.addSegment = TRUE]),
             n, 1)
           : p \in GenRandPos(g.snake1.body, g.snake2.body) }
    ELSE { g }

\* variant: the power-up is taken without the reward
checkPowerupCollision_NoReward(g, n, t) ==
    IF SnakeOf(g, n).body[1] = g.powerup.pos
    THEN WithSnake([Hide(g, t) EXCEPT !.powerup.pos = Sentinel], n,
                   [SnakeOf(g, n) EXCEPT !.addSegment = TRUE])
    ELSE g

checkPowerupCollision(g, n, t) ==
    IF SnakeOf(g, n).body[1] = g.powerup.pos
    THEN AddScore(
           WithSnake([Hide(g, t) EXCEPT !.powerup.pos = Sentinel], n,
                     [SnakeOf(g, n) EXCEPT !.addSegment = TRUE]),
           n, 5)
    ELSE g

isOutOfBounds(snake) ==
    \/ snake.body[1][1] < 0
    \/ snake.body[1][1] >= cellCount
    \/ snake.body[1][2] < 0
    \/ snake.body[1][2] >= cellCount

\* variant: a head on its own body is not detected
selfCollision_Never(snake) == FALSE

selfCollision(snake) ==
    LET headlessBody == Tail(snake.body)
    IN  elementInDeque(snake.body[1], headlessBody)

\* variant: the running flag is left set
declareWinner_KeepsRunning(g, winner) ==
    [g EXCEPT !.gameOver = TRUE,
              !.winnerMessage = IF winner = 1 THEN Player1Wins ELSE Player2Wins]

declareWinner(g, winner) ==
    [g EXCEPT !.running = FALSE,
              !.gameOver = TRUE,
              !.winnerMessage = IF winner = 1 THEN Player1Wins ELSE Player2Wins]

checkCollisions(g) ==
    LET g1 == IF isOutOfBounds(g.snake1) THEN declareWinner(g, 2) ELSE g
        g2 == IF isOutOfBounds(g1.snake2) THEN declareWinner(g1, 1) ELSE g1
        g3 == IF selfCollision(g2.snake1) THEN declareWinner(g2, 2) ELSE g2
        g4 == IF selfCollision(g3.snake2) THEN declareWinner(g3, 1) ELSE g3
        g5 == IF elementInDeque(g4.snake1.body[1], g4.snake2.body)
              THEN declareWinner(g4, 2) ELSE g4
        g6 == IF elementInDeque(g5.snake2.body[1], g5.snake1.body)
              THEN declareWinner(g5, 1) ELSE g5
    IN  g6

togglePowerupOff(g, t) ==
    IF g.showPowerup /\ eventTriggered(powerupDuration, g.powerupOnTime, t)
    THEN [Hide(g, t) EXCEPT !.powerupOnTime = t, !.powerup.pos = Sentinel]
    ELSE g

togglePowerupOn(g, t) ==
    IF ~g.showPowerup /\ eventTriggered(g.powerupTimeGap, g.powerupOffTime, t)
    THEN { [g EXCEPT !.powerupOffTime = t,
                     !.showPowerup = TRUE,
                     !.powerupOnTime = t,
                     !.powerup.pos = p]
           : p \in GenRandPos(g.snake1.body, g.snake2.body) }
    ELSE { g }

GameUpdate(g, t) ==
    IF g.running
    THEN LET moved == [g EXCEPT !.snake1 = SnakeUpdate(@),
                                !.snake2 = SnakeUpdate(@)]
             food1 == checkFoodCollision(moved, 1)
             food2 == UNION { checkFoodCollision(x, 2) : x \in food1 }
             power == { checkPowerupCollision(
                            checkPowerupCollision(x, 1, t), 2, t) : x \in food2 }
             hit   == { checkCollisions(x) : x \in power }
             off   == { togglePowerupOff(x, t) : x \in hit }
         IN  UNION { togglePowerupOn(x, t) : x \in off }
    ELSE { g }

GameReset(g, t) ==
    LET s1 == SnakeReset(g.snake1, << 6, 9 >>, << 1, 0 >>)
        s2 == SnakeReset(g.snake2, << 18, 9 >>, << -1, 0 >>)
    IN  { [Hide(g, t) EXCEPT !.snake1 = s1,
                             !.snake2 = s2,
                             !.food.pos = p,
                             !.powerup.pos = Sentinel,
                             !.score1 = 0,
                             !.score2 = 0,
                             !.running = TRUE,
                             !.gameOver = FALSE,
                             !.winnerMessage = ""]
          : p \in GenRandPos(s1.body, s2.body) }

(***************************************************************************)
(* main: one pass of the frame loop is a tick step, a reset step and an    *)
(* input step.  Time and the key state are sampled when the frame begins.  *)
(***************************************************************************)
G ==
    game @@ [ gameOver |-> gameOver,
              winnerMessage |-> winnerMessage,
              hiddenAt |-> hiddenAt ]

Install(g) ==
    /\ game' = [ f \in DOMAIN game |-> g[f] ]
    /\ gameOver' = g.gameOver
    /\ winnerMessage' = g.winnerMessage
    /\ hiddenAt' = g.hiddenAt

BeginFrame(dt, ks) ==
    /\ now + dt <= MaxTime
    /\ (ks \cap SteerKeys # {}) => keyFrames < MaxKeyFrames
    /\ now' = now + dt
    /\ pressed' = ks
    /\ keyFrames' = IF ks \cap SteerKeys # {} THEN keyFrames + 1 ELSE keyFrames

\* if (!gameOver && eventTriggered(0.2, gameUpdateTime))
TickDue(t) == ~gameOver /\ eventTriggered(gameInterval, gameUpdateTime, t)

\* if (gameOver && IsKeyPressed(KEY_SPACE))
ResetDue == gameOver /\ "KEY_SPACE" \in pressed

\* variant: if (!gameOver)
InputDue_WithoutAllowMove == ~gameOver

\* variant: if (allowMove)
InputDue_WithoutGameOver == allowMove

\* if (!gameOver && allowMove)
InputDue == ~gameOver /\ allowMove

\* if (IsKeyPressed(key) && legal) { direction = to; allowMove = false; }
KeyStep(st, isDown, legal, to) ==
    IF isDown /\ legal THEN [ direction |-> to, moved |-> TRUE ] ELSE st

Input1(direction, keys) ==
    LET s0 == [ direction |-> direction, moved |-> FALSE ]
        s1 == KeyStep(s0, "KEY_UP" \in keys, s0.direction[2] # 1, << 0, -1 >>)
        s2 == KeyStep(s1, "KEY_DOWN" \in keys, s1.direction[2] # -1, << 0, 1 >>)
        s3 == KeyStep(s2, "KEY_RIGHT" \in keys, s2.direction[1] # -1, << 1, 0 >>)
        s4 == KeyStep(s3, "KEY_LEFT" \in keys, s3.direction[1] # 1, << -1, 0 >>)
    IN  s4

Input2(direction, keys) ==
    LET s0 == [ direction |-> direction, moved |-> FALSE ]
        s1 == KeyStep(s0, "KEY_W" \in keys, s0.direction[2] # 1, << 0, -1 >>)
        s2 == KeyStep(s1, "KEY_S" \in keys, s1.direction[2] # -1, << 0, 1 >>)
        s3 == KeyStep(s2, "KEY_D" \in keys, s2.direction[1] # -1, << 1, 0 >>)
        s4 == KeyStep(s3, "KEY_A" \in keys, s3.direction[1] # 1, << -1, 0 >>)
    IN  s4

Init ==
    /\ \E f \in GenRandPos(Snake(<< 6, 9 >>, << 1, 0 >>).body,
                           Snake(<< 18, 9 >>, << -1, 0 >>).body),
          p \in GenRandPos(Snake(<< 6, 9 >>, << 1, 0 >>).body,
                           Snake(<< 18, 9 >>, << -1, 0 >>).body),
          gap \in { powerupGapLow, powerupGapHigh } :
            game = [ snake1 |-> Snake(<< 6, 9 >>, << 1, 0 >>),
                     snake2 |-> Snake(<< 18, 9 >>, << -1, 0 >>),
                     food |-> [ pos |-> f ],
                     powerup |-> [ pos |-> p ],
                     running |-> TRUE,
                     score1 |-> 0,
                     score2 |-> 0,
                     showPowerup |-> FALSE,
                     powerupOnTime |-> 0,
                     powerupOffTime |-> 0,
                     powerupTimeGap |-> gap ]
    /\ gameUpdateTime = 0
    /\ gameOver = FALSE
    /\ allowMove = FALSE
    /\ winnerMessage = ""
    /\ now = 0
    /\ pressed = {}
    /\ pc = "tick"
    /\ ticks = 0
    /\ keyFrames = 0
    /\ hiddenAt = -1
    /\ lastStep = "init"
    /\ genPosition = Sentinel

Tick ==
    /\ pc = "tick"
    /\ \E dt \in DtSet, ks \in KeySets :
          /\ BeginFrame(dt, ks)
          /\ TickDue(now')
          /\ \E g \in GameUpdate(G, now') : Install(g)
    /\ gameUpdateTime' = now'
    /\ allowMove' = TRUE
    /\ ticks' = ticks + 1
    /\ pc' = "reset"
    /\ lastStep' = "tick"
    /\ UNCHANGED genPosition

NoTick ==
    /\ pc = "tick"
    /\ \E dt \in DtSet, ks \in KeySets :
          /\ BeginFrame(dt, ks)
          /\ ~TickDue(now')
    /\ pc' = "reset"
    /\ lastStep' = "notick"
    /\ UNCHANGED genPosition
    /\ UNCHANGED << game, gameUpdateTime, gameOver, allowMove, winnerMessage,
                    ticks, hiddenAt >>

Reset ==
    /\ pc = "reset"
    /\ ResetDue
    /\ \E g \in GameReset(G, now) : Install(g)
    /\ ticks' = 0
    /\ pc' = "input"
    /\ lastStep' = "reset"
    /\ UNCHANGED genPosition
    /\ UNCHANGED << gameUpdateTime, allowMove, now, pressed, keyFrames >>

NoReset ==
    /\ pc = "reset"
    /\ ~ResetDue
    /\ pc' = "input"
    /\ lastStep' = "noreset"
    /\ UNCHANGED genPosition
    /\ UNCHANGED << game, gameUpdateTime, gameOver, allowMove, winnerMessage,
                    now, pressed, ticks, keyFrames, hiddenAt >>

Input ==
    /\ pc = "input"
    /\ InputDue
    /\ LET r1 == Input1(game.snake1.direction, pressed)
           r2 == Input2(game.snake2.direction, pressed)
       IN  /\ game' = [game EXCEPT !.snake1.direction = r1.direction,
                                   !.snake2.direction = r2.direction]
           /\ allowMove' = IF r1.moved \/ r2.moved THEN FALSE ELSE allowMove
    /\ pc' = "tick"
    /\ lastStep' = "input"
    /\ UNCHANGED genPosition
    /\ UNCHANGED << gameUpdateTime, gameOver, winnerMessage, now, pressed,
                    ticks, keyFrames, hiddenAt >>

NoInput ==
    /\ pc = "input"
    /\ ~InputDue
    /\ pc' = "tick"
    /\ lastStep' = "noinput"
    /\ UNCHANGED genPosition
    /\ UNCHANGED << game, gameUpdateTime, gameOver, allowMove, winnerMessage,
                    now, pressed, ticks, keyFrames, hiddenAt >>

Next == Tick \/ NoTick \/ Reset \/ NoReset \/ Input \/ NoInput

Spec == Init /\ [][Next]_vars

(***************************************************************************)
(* Play near the border.  BorderInit is the game as it is after tick 1, a  *)
(* frame with KEY_UP and KEY_W down and eight more ticks 0.2 s apart: both *)
(* snakes head up in columns 7 and 17, their heads in row 1, nothing       *)
(* eaten, the power-up not yet shown.  The exploration (and its count of   *)
(* frames with a steering key) continues from there.                       *)
(***************************************************************************)
BorderInit ==
    /\ \E f \in RandCells \ { << 7, 9 >> },
          p \in RandCells \ { << 7, 9 >> },
          gap \in { powerupGapLow, powerupGapHigh } :
            game = [ snake1 |-> [ body |-> << << 7, 1 >>, << 7, 2 >>, << 7, 3 >> >>,
                                  direction |-> << 0, -1 >>,
                                  addSegment |-> FALSE ],
                     snake2 |-> [ body |-> << << 17, 1 >>, << 17, 2 >>, << 17, 3 >> >>,
                                  direction |-> << 0, -1 >>,
                                  addSegment |-> FALSE ],
                     food |-> [ pos |-> f ],
                     powerup |-> [ pos |-> p ],
                     running |-> TRUE,
                     score1 |-> 0,
                     score2 |-> 0,
                     showPowerup |-> FALSE,
                     powerupOnTime |-> 0,
                     powerupOffTime |-> 0,
                     powerupTimeGap |-> gap ]
    /\ gameUpdateTime = 9 * gameInterval
    /\ gameOver = FALSE
    /\ allowMove = TRUE
    /\ winnerMessage = ""
    /\ now = 9 * gameInterval
    /\ pressed = {}
    /\ pc = "reset"
    /\ ticks = 9
    /\ keyFrames = 0
    /\ hiddenAt = -1
    /\ lastStep = "tick"
    /\ genPosition = Sentinel

SpecPlay == (Init \/ BorderInit) /\ [][Next]_vars

(***************************************************************************)
(* One call of Food::GenRandPos, statement by statement.  The call is made *)
(* on the bodies of the starting pose, on bodies that leave one cell of    *)
(* the grid free and on bodies that leave none (two snakes that fill the   *)
(* grid, the head of one having just reached the food with a growth        *)
(* pending).  randomCell() yields the cells of rows 9 and 24.              *)
(***************************************************************************)
Grid == (0..(cellCount - 1)) \X (0..(cellCount - 1))

GenCells == { c \in Grid : c[2] \in { 9, cellCount - 1 } }

\* a body that winds through the rows 0 .. rows-1, head at (0,0)
Serpentine(rows) ==
    [ k \in 1..(rows * cellCount) |->
        LET r == (k - 1) \div cellCount
            c == (k - 1) % cellCount
        IN  << IF r % 2 = 0 THEN c ELSE cellCount - 1 - c, r >> ]

\* a body along the last row, head at its left end
LastRow(len) == [ k \in 1..len |-> << k - 1, cellCount - 1 >> ]

GenBodies ==
    { << StartBody(<< 6, 9 >>, << 1, 0 >>), StartBody(<< 18, 9 >>, << -1, 0 >>) >>,
      << Serpentine(cellCount - 1), LastRow(cellCount - 1) >>,
      << Serpentine(cellCount - 1), LastRow(cellCount) >> }

\* elementInDeque(position, snake1_body) || elementInDeque(position, snake2_body)
Occupied(p) ==
    \/ elementInDeque(p, game.snake1.body)
    \/ elementInDeque(p, game.snake2.body)

GenInit ==
    /\ \E b \in GenBodies :
            game = [ snake1 |-> [ body |-> b[1], direction |-> << 1, 0 >>,
                                  addSegment |-> FALSE ],
                     snake2 |-> [ body |-> b[2], direction |-> << -1, 0 >>,
                                  addSegment |-> FALSE ],
                     food |-> [ pos |-> b[1][1] ],
                     powerup |-> [ pos |-> Sentinel ],
                     running |-> TRUE,
                     score1 |-> 0,
                     score2 |-> 0,
                     showPowerup |-> FALSE,
                     powerupOnTime |-> 0,
                     powerupOffTime |-> 0,
                     powerupTimeGap |-> powerupGapLow ]
    /\ gameUpdateTime = 0
    /\ gameOver = FALSE
    /\ allowMove = TRUE
    /\ winnerMessage = ""
    /\ now = 0
    /\ pressed = {}
    /\ pc = "gen_call"
    /\ ticks = 1
    /\ keyFrames = 0
    /\ hiddenAt = -1
    /\ lastStep = "tick"
    /\ genPosition = Sentinel

GenFrame ==
    UNCHANGED << game, gameUpdateTime, gameOver, allowMove, winnerMessage,
                 now, pressed, ticks, keyFrames, hiddenAt, lastStep >>

\* Vector2 position = randomCell();
GenSample ==
    /\ pc = "gen_call"
    /\ genPosition' \in GenCells
    /\ pc' = "gen_loop"
    /\ GenFrame

\* while (...) position = randomCell();
GenRetry ==
    /\ pc = "gen_loop"
    /\ Occupied(genPosition)
    /\ genPosition' \in GenCells
    /\ pc' = "gen_loop"
    /\ GenFrame

\* return position;
GenReturn ==
    /\ pc = "gen_loop"
    /\ ~Occupied(genPosition)
    /\ pc' = "gen_return"
    /\ UNCHANGED genPosition
    /\ GenFrame

GenNext == GenSample \/ GenRetry \/ GenReturn

\* the random source is fair: a free cell that can be drawn again and again
\* is drawn at some time
GenRetryFree == GenRetry /\ ~Occupied(genPosition')

SpecGen ==
    GenInit /\ [][GenNext]_vars /\ WF_vars(GenNext) /\ SF_vars(GenRetryFree)

(***************************************************************************)
(* Vocabulary of the properties.                                           *)
(***************************************************************************)
Opposite(d) == << -d[1], -d[2] >>

KeyDir(k) ==
    CASE k \in {"KEY_UP", "KEY_W"} -> << 0, -1 >>
      [] k \in {"KEY_DOWN", "KEY_S"} -> << 0, 1 >>
      [] k \in {"KEY_RIGHT", "KEY_D"} -> << 1, 0 >>
      [] k \in {"KEY_LEFT", "KEY_A"} -> << -1, 0 >>

\* the frame loop reads the keys of a player in this order
KeyOrder1 == << "KEY_UP", "KEY_DOWN", "KEY_RIGHT", "KEY_LEFT" >>
KeyOrder2 == << "KEY_W", "KEY_S", "KEY_D", "KEY_A" >>

\* a request is refused exactly when it is the opposite of the direction
Steer(d, req) == IF req = Opposite(d) THEN d ELSE req

RECURSIVE SteerAll(_, _, _, _)
SteerAll(d, keys, order, i) ==
    IF i > Len(order) THEN d
    ELSE SteerAll(IF order[i] \in keys THEN Steer(d, KeyDir(order[i])) ELSE d,
                  keys, order, i + 1)

\* the six rules of the collision resolution, in their documented order,
\* on the bodies as they are after both snakes advanced
RuleHolds(i) ==
    CASE i = 1 -> isOutOfBounds(game.snake1)
      [] i = 2 -> isOutOfBounds(game.snake2)
      [] i = 3 -> selfCollision(game.snake1)
      [] i = 4 -> selfCollision(game.snake2)
      [] i = 5 -> elementInDeque(game.snake1.body[1], game.snake2.body)
      [] i = 6 -> elementInDeque(game.snake2.body[1], game.snake1.body)

RuleWinner(i) == IF i \in {1, 3, 5} THEN Player2Wins ELSE Player1Wins

Matching == { i \in 1..6 : RuleHolds(i) }

Earliest(S) == CHOOSE i \in S : \A j \in S : i <= j

OnBodies(g, p) ==
    \/ elementInDeque(p, g.snake1.body)
    \/ elementInDeque(p, g.snake2.body)

OnBody(p) == OnBodies(game, p)

ScoreOf(g, n) == IF n = 1 THEN g.score1 ELSE g.score2

\* the cell a snake's head moves to on the next advance
Ahead(n) == Vector2Add(SnakeOf(game, n).body[1], SnakeOf(game, n).direction)

\* the step is a tick: Game::update has run
IsTick == ticks' = ticks + 1

InGrid(p) == p[1] \in 0..(cellCount - 1) /\ p[2] \in 0..(cellCount - 1)

(***************************************************************************)
(* C1: when two or more collision rules hold on the same tick, the winner  *)
(* recorded is the one named by the earliest rule that holds.  The bodies  *)
(* of a finished game are those of its last tick.                          *)
(***************************************************************************)
C1_FirstMatchWins ==
    (gameOver /\ Cardinality(Matching) >= 2)
        => winnerMessage = RuleWinner(Earliest(Matching))

(***************************************************************************)
(* C2: with no steering key ever pressed the game runs through ticks 1-5   *)
(* and ends on tick 6 with both heads on (12,9) and Player 2 the winner.   *)
(***************************************************************************)
C2_HeadOnPlayer2Wins ==
    keyFrames = 0 =>
        /\ ticks <= 5 => ~gameOver
        /\ ticks = 6 => /\ gameOver
                        /\ game.snake1.body[1] = << 12, 9 >>
                        /\ game.snake2.body[1] = << 12, 9 >>
                        /\ winnerMessage = Player2Wins

C4_NoReversal ==
    \A n \in {1, 2} :
        LET b == SnakeOf(game, n).body
        IN  Vector2Subtract(b[1], b[2]) # Opposite(Vector2Subtract(b[2], b[3]))

(***************************************************************************)
(* C5: between ticks the food is on neither body, and the power-up, when   *)
(* its position is not the sentinel, is on neither body.                   *)
(***************************************************************************)
C5_CollectiblesOffBodies ==
    /\ ~OnBody(game.food.pos)
    /\ game.powerup.pos # Sentinel => ~OnBody(game.powerup.pos)

\* after a tick: food has been eaten and relocated, the power-up is shown
C5_Witness ==
    /\ lastStep = "tick"
    /\ game.score1 >= 1
    /\ game.showPowerup
    /\ game.powerup.pos # Sentinel

(***************************************************************************)
(* C6 as stated: if the food is on the cell in front of a snake's head     *)
(* when a tick starts, then after the tick the snake's score is 1 higher,  *)
(* its body is one segment longer, and the food is at a new position on    *)
(* neither body.                                                           *)
(***************************************************************************)
C6_GrowsOnTheTick ==
    [][ \A n \in {1, 2} :
          (IsTick /\ Ahead(n) = game.food.pos) =>
             /\ ScoreOf(game', n) = ScoreOf(game, n) + 1
             /\ Len(SnakeOf(game', n).body) = Len(SnakeOf(game, n).body) + 1
             /\ game'.food.pos # game.food.pos
             /\ ~OnBodies(game', game'.food.pos) ]_vars

(***************************************************************************)
(* C6 amended: if the food is on the cell in front of a snake's head when  *)
(* a tick starts (and, for snake 2, snake 1's head does not move onto that *)
(* cell on the same tick), then after the tick the snake's score is 1      *)
(* higher (6 higher when the power-up position is that same cell), its     *)
(* pending-growth flag is set, so the segment is added by its next         *)
(* advance, its body length has changed on this tick only by a growth that *)
(* was already pending, and the food is at a new position on neither body. *)
(***************************************************************************)
C6_GrowthPending ==
    [][ \A n \in {1, 2} :
          (/\ IsTick
           /\ Ahead(n) = game.food.pos
           /\ n = 2 => Ahead(1) # game.food.pos) =>
             /\ ScoreOf(game', n) = ScoreOf(game, n)
                    + (IF game.powerup.pos = game.food.pos THEN 6 ELSE 1)
             /\ SnakeOf(game', n).addSegment
             /\ Len(SnakeOf(game', n).body) = Len(SnakeOf(game, n).body)
                    + (IF SnakeOf(game, n).addSegment THEN 1 ELSE 0)
             /\ game'.food.pos # game.food.pos
             /\ ~OnBodies(game', game'.food.pos) ]_vars

\* the first tick has moved snake 1 onto the food at (7,9)
C6_Witness ==
    /\ lastStep = "tick"
    /\ ticks = 1
    /\ game.snake1.body[1] = << 7, 9 >>
    /\ game.score1 = 1
    /\ game.snake1.addSegment
    /\ Len(game.snake1.body) = 3

(***************************************************************************)
(* C7: when the power-up is shown after it was hidden (consumed, expired), *)
(* at least powerupTimeGap has passed since the moment it was hidden.      *)
(***************************************************************************)
C7_GapSinceHidden ==
    [][ (~game.showPowerup /\ game'.showPowerup /\ hiddenAt >= 0) =>
            now' - hiddenAt >= game.powerupTimeGap ]_vars

(***************************************************************************)
(* C8: a reset in GameOver leaves both scores 0, both snakes in their      *)
(* starting pose, the food on an in-grid cell on neither body, the         *)
(* power-up hidden at (-1,-1), no winner message, running and not over.    *)
(***************************************************************************)
C8_ResetState ==
    [][ (gameOver /\ lastStep' = "reset") =>
          /\ game'.score1 = 0
          /\ game'.score2 = 0
          /\ game'.snake1.body = << << 6, 9 >>, << 5, 9 >>, << 4, 9 >> >>
          /\ game'.snake1.direction = << 1, 0 >>
          /\ game'.snake2.body = << << 18, 9 >>, << 19, 9 >>, << 20, 9 >> >>
          /\ game'.snake2.direction = << -1, 0 >>
          /\ InGrid(game'.food.pos)
          /\ ~OnBodies(game', game'.food.pos)
          /\ ~game'.showPowerup
          /\ game'.powerup.pos = Sentinel
          /\ winnerMessage' = ""
          /\ game'.running
          /\ ~gameOver' ]_vars

\* a reset has just ended a game in which the power-up had been shown
C8_Witness ==
    /\ lastStep = "reset"
    /\ game.powerupOnTime > 0
    /\ game.score1 = 0
    /\ game.running

(***************************************************************************)
(* C9: in GameOver no step changes the snakes, the scores, the food, the   *)
(* power-up or the winner message, except the reset, which is the only     *)
(* step that leaves GameOver and which returns to Running.                 *)
(***************************************************************************)
C9_GameOverFrozen ==
    [][ gameOver =>
          IF gameOver'
          THEN /\ game'.snake1 = game.snake1
               /\ game'.snake2 = game.snake2
               /\ game'.score1 = game.score1
               /\ game'.score2 = game.score2
               /\ game'.food = game.food
               /\ game'.powerup = game.powerup
               /\ game'.showPowerup = game.showPowerup
               /\ winnerMessage' = winnerMessage
          ELSE /\ lastStep' = "reset"
               /\ "KEY_SPACE" \in pressed
               /\ game'.running ]_vars

\* a finished game has passed a frame with a steering key down, allowMove set
C9_Witness ==
    /\ gameOver
    /\ lastStep = "noinput"
    /\ "KEY_UP" \in pressed
    /\ allowMove

(***************************************************************************)
(* C10: exactly one of running and gameOver is true, and the winner        *)
(* message is "Player 1 Wins!" or "Player 2 Wins!" if gameOver is true     *)
(* and empty otherwise.                                                    *)
(***************************************************************************)
C10_OneStateAndMessage ==
    /\ game.running # gameOver
    /\ gameOver => winnerMessage \in { Player1Wins, Player2Wins }
    /\ ~gameOver => winnerMessage = ""

\* a tick has just ended the game with a winner declared
C10_Witness ==
    /\ gameOver
    /\ winnerMessage = Player2Wins
    /\ ~game.running
    /\ lastStep = "tick"

(***************************************************************************)
(* C11: on every advance the new head is the old head plus the direction;  *)
(* with no growth pending the length is unchanged, with growth pending it  *)
(* rises by exactly 1 and the flag is false right after the advance (so a  *)
(* flag that is set after the tick was set by a collectible eaten on it).  *)
(***************************************************************************)
C11_Advance ==
    [][ IsTick =>
          \A n \in {1, 2} :
            LET old == SnakeOf(game, n)
                new == SnakeOf(game', n)
            IN  /\ new.body[1] = << old.body[1][1] + old.direction[1],
                                    old.body[1][2] + old.direction[2] >>
                /\ Len(new.body) =
                      Len(old.body) + (IF old.addSegment THEN 1 ELSE 0)
                /\ new.addSegment =>
                      new.body[1] \in { game.food.pos, game.powerup.pos } ]_vars

\* a snake whose growth was pending has advanced: 4 segments, flag clear
C11_Witness ==
    /\ lastStep = "tick"
    /\ Len(game.snake1.body) = 4
    /\ ~game.snake1.addSegment
    /\ game.score1 >= 1

(***************************************************************************)
(* C12: after every reset both pending-growth flags are false, so after    *)
(* the first tick that follows the reset each snake has 3 segments.        *)
(***************************************************************************)
C12_ResetClearsGrowth ==
    /\ lastStep = "reset" =>
          ~game.snake1.addSegment /\ ~game.snake2.addSegment
    /\ ticks = 1 =>
          Len(game.snake1.body) = 3 /\ Len(game.snake2.body) = 3

(***************************************************************************)
(* C13: every call of GenRandPos ends: with a free cell when there is one  *)
(* (the sampling being fair), with a reported failure when the snakes      *)
(* occupy every cell.  The code has one way to end the call, its return.   *)
(***************************************************************************)
C13_CallEnds == <>(pc = "gen_return")

(***************************************************************************)
(* C14 as stated: if a snake's head lands in one tick on a cell that holds *)
(* both the food and the power-up, its score rises by 6 and its body grows *)
(* by exactly one segment on the next advance, not two.                    *)
(***************************************************************************)
C14_SixAndOneSegment ==
    [][ \A n \in {1, 2} :
          (/\ IsTick
           /\ game.running
           /\ Ahead(n) = game.food.pos
           /\ Ahead(n) = game.powerup.pos) =>
             LET s == SnakeOf(game', n)
             IN  /\ ScoreOf(game', n) = ScoreOf(game, n) + 6
                 /\ Len(SnakeUpdate(s).body) = Len(s.body) + 1
                 /\ Len(SnakeUpdate(SnakeUpdate(s)).body) = Len(s.body) + 1
      ]_vars

(***************************************************************************)
(* C14 amended: if a snake's head lands in one tick on a cell that is the  *)
(* position of both the food and the power-up (and, for snake 2, snake 1's *)
(* head does not land on that cell on the same tick), its score rises by 6 *)
(* and its body grows by exactly one segment on the next advance: the      *)
(* advance adds one segment and clears the request, so that a second       *)
(* advance adds none.                                                      *)
(***************************************************************************)
C14_SixAndOneSegmentUnlessTaken ==
    [][ \A n \in {1, 2} :
          (/\ IsTick
           /\ game.running
           /\ Ahead(n) = game.food.pos
           /\ Ahead(n) = game.powerup.pos
           /\ n = 2 => Ahead(1) # Ahead(2)) =>
             LET s == SnakeOf(game', n)
             IN  /\ ScoreOf(game', n) = ScoreOf(game, n) + 6
                 /\ s.addSegment
                 /\ Len(SnakeUpdate(s).body) = Len(s.body) + 1
                 /\ ~SnakeUpdate(s).addSegment
                 /\ Len(SnakeUpdate(SnakeUpdate(s)).body) = Len(s.body) + 1
      ]_vars

\* the first tick has moved snake 1 onto (7,9), where both collectibles
\* were: 6 points, one growth pending, the power-up position cleared
C14_Witness ==
    /\ lastStep = "tick"
    /\ ticks = 1
    /\ game.snake1.body[1] = << 7, 9 >>
    /\ game.score1 = 6
    /\ game.snake1.addSegment
    /\ game.powerup.pos = Sentinel
    /\ Len(game.snake1.body) = 3

(***************************************************************************)
(* C15: in every reachable state each body has at least 3 segments and     *)
(* every two consecutive segments are orthogonally adjacent cells; on each *)
(* tick the head moves by exactly one cell and every other segment takes   *)
(* the position its predecessor had before the tick.                       *)
(***************************************************************************)
Abs(x) == IF x < 0 THEN -x ELSE x

Adjacent(p, q) == Abs(p[1] - q[1]) + Abs(p[2] - q[2]) = 1

Contiguous(body) ==
    /\ Len(body) >= 3
    /\ \A i \in 1..(Len(body) - 1) : Adjacent(body[i], body[i + 1])

C15_ContiguousShift ==
    /\ [](Contiguous(game.snake1.body) /\ Contiguous(game.snake2.body))
    /\ [][ IsTick =>
             \A n \in {1, 2} :
                LET old == SnakeOf(game, n).body
                    new == SnakeOf(game', n).body
                IN  /\ Adjacent(new[1], old[1])
                    /\ \A i \in 1..(Len(new) - 1) : new[i + 1] = old[i]
          ]_vars

\* snake 1 has grown to 4 segments and its last step was vertical
C15_Witness ==
    /\ lastStep = "tick"
    /\ Len(game.snake1.body) = 4
    /\ game.snake1.body[1][1] = game.snake1.body[2][1]
    /\ game.snake1.body[2][2] = game.snake1.body[3][2]

(***************************************************************************)
(* C16: once the power-up is shown at time T (powerupOnTime), and as long  *)
(* as it is not consumed and the game is not reset, it is still visible    *)
(* after every tick evaluated before T + powerupDuration, and it is hidden *)
(* with the sentinel position by the first tick evaluated at               *)
(* T + powerupDuration or later.                                           *)
(***************************************************************************)
C16_VisibleWindow ==
    [][ (/\ IsTick
         /\ game.showPowerup
         /\ Ahead(1) # game.powerup.pos
         /\ Ahead(2) # game.powerup.pos) =>
            IF now' - game.powerupOnTime < powerupDuration
            THEN /\ game'.showPowerup
                 /\ game'.powerup.pos = game.powerup.pos
            ELSE /\ ~game'.showPowerup
                 /\ game'.powerup.pos = Sentinel
      ]_vars

(***************************************************************************)
(* C17: in every reachable state, from construction onward, the power-up   *)
(* is not visible if and only if its position is the sentinel; so a snake  *)
(* receives the power-up reward only on a tick that began with the         *)
(* power-up visible.                                                       *)
(***************************************************************************)
C17_HiddenIffSentinel ==
    /\ [](~game.showPowerup <=> game.powerup.pos = Sentinel)
    /\ [][ \A n \in {1, 2} :
             (IsTick /\ ScoreOf(game', n) >= ScoreOf(game, n) + 5) =>
                game.showPowerup ]_vars

(***************************************************************************)
(* C18: in every Running state both heads are inside the grid, no body     *)
(* contains a cell twice and the two bodies share no cell; a tick ends in  *)
(* GameOver exactly when, after both snakes advanced, some head is out of  *)
(* bounds, on its own body or on the other snake's body.                   *)
(***************************************************************************)
NoRepeat(body) ==
    \A i, j \in 1..Len(body) : i # j => body[i] # body[j]

Disjoint(b1, b2) ==
    \A i \in 1..Len(b1), j \in 1..Len(b2) : b1[i] # b2[j]

HeadHits(head, other) == \E j \in 1..Len(other) : other[j] = head

HeadOnOwnBody(body) == \E j \in 2..Len(body) : body[j] = body[1]

SomeHeadHits(g) ==
    \/ ~InGrid(g.snake1.body[1])
    \/ ~InGrid(g.snake2.body[1])
    \/ HeadOnOwnBody(g.snake1.body)
    \/ HeadOnOwnBody(g.snake2.body)
    \/ HeadHits(g.snake1.body[1], g.snake2.body)
    \/ HeadHits(g.snake2.body[1], g.snake1.body)

C18_RunningIsCollisionFree ==
    /\ [](~gameOver =>
             /\ InGrid(game.snake1.body[1])
             /\ InGrid(game.snake2.body[1])
             /\ NoRepeat(game.snake1.body)
             /\ NoRepeat(game.snake2.body)
             /\ Disjoint(game.snake1.body, game.snake2.body))
    /\ [][ IsTick => (gameOver' <=> SomeHeadHits(game')) ]_vars

\* a tick has ended the game with snake 2's head on its own body while
\* both heads are inside the grid
C18_Witness ==
    /\ lastStep = "tick"
    /\ gameOver
    /\ HeadOnOwnBody(game.snake2.body)
    /\ InGrid(game.snake1.body[1])
    /\ InGrid(game.snake2.body[1])

(***************************************************************************)
(* C19: in any single tick at most one snake receives the food reward (+1) *)
(* and at most one the power-up reward (+5); when both heads arrive on the *)
(* cell of a collectible on the same tick, snake 1 receives its reward and *)
(* snake 2 receives nothing for it.                                        *)
(***************************************************************************)
Gain(n) == ScoreOf(game', n) - ScoreOf(game, n)

FoodGains == { 1, 6 }

PowerupGains == { 5, 6 }

C19_OneTakerPerCollectible ==
    [][ IsTick =>
          /\ Gain(1) \in { 0, 1, 5, 6 }
          /\ Gain(2) \in { 0, 1, 5, 6 }
          /\ ~(Gain(1) \in FoodGains /\ Gain(2) \in FoodGains)
          /\ ~(Gain(1) \in PowerupGains /\ Gain(2) \in PowerupGains)
          /\ (Ahead(1) = game.food.pos /\ Ahead(2) = game.food.pos) =>
                 (Gain(1) \in FoodGains /\ Gain(2) \notin FoodGains)
          /\ (Ahead(1) = game.powerup.pos /\ Ahead(2) = game.powerup.pos) =>
                 (Gain(1) \in PowerupGains /\ Gain(2) \notin PowerupGains)
      ]_vars

\* both heads have arrived on the same cell, the food was there: snake 1
\* has the point and the growth request, snake 2 has neither
C19_Witness ==
    /\ lastStep = "tick"
    /\ game.snake1.body[1] = game.snake2.body[1]
    /\ game.food.pos # game.snake1.body[1]
    /\ game.score1 = 1
    /\ game.score2 = 0
    /\ game.snake1.addSegment
    /\ ~game.snake2.addSegment

=============================================================================
